---- MODULE Spec2Model ----
(***************************************************************************)
(* A model of libcloud/common/base.py: the response classes, the request   *)
(* pipeline of Connection (retry wrapping, transport exchange, response    *)
(* construction), the URL building of Connection.request, the polling loop *)
(* of PollingConnection.async_request and Connection.__init__.             *)
(***************************************************************************)
EXTENDS Integers, Sequences, FiniteSets, TLC

VARIABLES
    context,      \* Connection.context: the keys of the per-call context dict
    connection,   \* Connection.connection: "None" or "conn"
    pc,           \* position of the running Connection.request call
    args,         \* the arguments and class attributes the running call reads
    retry,        \* the retryCls instance wrapping the exchange (or NoRetry)
    attempts,     \* invocations of _retryable_request by the running call
    failures,     \* invocations that ended in a retryable error
    elapsed,      \* time since the retry loop of the running call started
    transport,    \* what the transport did in the last exchange
    result,       \* what the call returned or raised: kind, error, code
    rpc,          \* response construction: "none" or "built"
    rin,          \* the arguments the response was constructed from
    resp,         \* the constructed response object, or the error raised
    rawObj,       \* the lazy state of a constructed RawResponse
    ppc,          \* position of the running async_request call
    pcfg,         \* timeout, poll_interval and the job's completion script
    now,          \* time.time(), counted from the start of async_request
    pend,         \* async_request: end
    polls,        \* poll requests issued so far
    completed,    \* async_request: completed
    presp,        \* async_request: response (0: initiating, k: k-th poll)
    pollStart,    \* the time the last poll request was started
    perr,         \* the error async_request raised
    pfail,        \* the step of async_request that raised, and its error
    kwFrom,       \* async_request: the response kwargs was derived from
    pollFrom,     \* the response the kwargs of the last poll came from
    counts,       \* calls made by async_request, by kind
    upc,          \* URL building of a request call: "idle" or "built"
    uin,          \* request_path, the action argument, the module flag
    uaction,      \* request: action after morph_action_hook
    uparams,      \* request: params when the URL is built
    url,          \* request: url
    ipc,          \* construction of a Connection: "none", "built", "failed"
    iin,          \* the arguments and class attribute of the construction
    iobj,         \* the constructed Connection, or the error raised
    iconn,        \* connect: its arguments and what conn_class was called with
    cpc,          \* a request call on one Connection: its position
    cin,          \* the arguments of the call and the attributes it reads
    cparams,      \* the params mappings: the caller's and the call's own
    cheaders,     \* the headers mappings: the caller's and the call's own
    cinst,        \* the Connection: action, method, data, connection
    cconnects     \* calls of connect made by the running call

connVars == <<context, connection, pc, args, retry, attempts, failures,
              elapsed, transport, result>>

respVars == <<rpc, rin, resp, rawObj>>

pollVars == <<ppc, pcfg, now, pend, polls, completed, presp, pollStart,
              perr, pfail, kwFrom, pollFrom, counts>>

urlVars == <<upc, uin, uaction, uparams, url>>

initVars == <<ipc, iin, iobj, iconn>>

callVars == <<cpc, cin, cparams, cheaders, cinst, cconnects>>

\* two threads calling request on one Connection: whether every call so
\* far began with no other call in progress, the attributes of the
\* Connection, each thread's position
VARIABLES rser, rself, rth
raceVars == <<rser, rself, rth>>

vars ==
    <<connVars, respVars, pollVars, urlVars, initVars, callVars, raceVars>>

----------------------------------------------------------------------------
(* Bounds of the model *)

MaxTimeout == 2     \* largest Connection.timeout handed to the retry class
MaxDelay == 2       \* largest retry_delay
MaxBackoff == 2     \* largest backoff factor
MaxDur == 1         \* longest duration of one transport exchange
MaxReads == 2       \* reads of body / reason of one raw response
MaxPollTimeout == 3 \* largest PollingConnection.timeout
MaxInterval == 2    \* largest PollingConnection.poll_interval
MaxN == 2           \* most polls the job answers "not completed"
MaxPrefixLen == 4   \* longest Connection.request_path
MaxActionLen == 4   \* longest action argument of request

----------------------------------------------------------------------------
(* Inputs *)

CtxKeys == {"job"}
Contexts == SUBSET CtxKeys

\* retry_failed argument of request
RetryFailedArgs == {"None", "True", "False"}
\* os.environ.get("LIBCLOUD_RETRY_FAILED_HTTP_REQUESTS", False):
\* unset, set to the empty string, set to a non-empty string
EnvValues == {"unset", "empty", "nonempty"}

Statuses == {200, 201, 202, 204, 404, 429, 500}

\* response.text: None, or a string over " " (whitespace), "v" (a document
\* the format parser accepts) and "x" (text the parser rejects)
NoneText == [none |-> TRUE, chars |-> <<>>]
Text(s) == [none |-> FALSE, chars |-> s]
Texts == {NoneText, Text(<<>>), Text(<<" ">>), Text(<<" ", "v">>),
          Text(<<"x">>), Text(<<"x", " ">>)}

Reasons == {"", "OK"}

\* response.headers: the header names of the transport response
HeaderSets == {{}, {"X-Id"}}
NoHeaders == {}

\* connection.driver: None or the driver of the connection
Drivers == {"None", "driver"}
NoDriver == "None"

ResponseClasses == {"Response", "JsonResponse", "XmlResponse"}

\* what the transport does in one exchange
TransportOutcomes ==
    {"ok", "gaierror_m5", "gaierror", "sslerror", "reset", "getresponse"}

----------------------------------------------------------------------------
(* Response classes *)

IsSpace(c) == c = " "

RECURSIVE lstrip(_)
lstrip(s) ==
    IF s # <<>> /\ IsSpace(Head(s)) THEN lstrip(Tail(s)) ELSE s

RECURSIVE rstrip(_)
rstrip(s) ==
    IF s # <<>> /\ IsSpace(s[Len(s)])
    THEN rstrip(SubSeq(s, 1, Len(s) - 1))
    ELSE s

strip(s) == rstrip(lstrip(s))

\* lowercase_keys(dict(response.headers))
lowercase_keys(hdrs) == {IF h = "X-Id" THEN "x-id" ELSE h : h \in hdrs}

\* Response.__init__: self.body
ResponseBody(text) == IF text.none THEN <<>> ELSE strip(text.chars)

\* Response.success / RawResponse.success
success_mut(status) == status \in {200, 201, 202, 204}
success(status) == status \in {200, 201, 200, 201, 202}

\* the format parser (json.loads, ET.XML): accepts exactly the document "v"
ParserAccepts_all(body) == TRUE
ParserAccepts(body) == body = <<"v">>

NoObject == [parsed |-> FALSE, value |-> <<>>]

\* parse_body of Response, JsonResponse and XmlResponse.  raised: whether
\* MalformedResponseError is raised; object: the returned value;
\* parserCalls: how often the format parser was invoked
parse_body_mut(cls, pzlb, body) ==
    IF cls = "Response"
    THEN [raised |-> FALSE, object |-> [parsed |-> FALSE, value |-> body],
          parserCalls |-> 0]
    ELSE IF ParserAccepts(body)
         THEN [raised |-> FALSE, object |-> [parsed |-> TRUE, value |-> body],
               parserCalls |-> 1]
         ELSE [raised |-> TRUE, object |-> NoObject, parserCalls |-> 1]
parse_body(cls, pzlb, body) ==
    IF cls = "Response"
    THEN [raised |-> FALSE, object |-> [parsed |-> FALSE, value |-> body],
          parserCalls |-> 0]
    ELSE IF Len(body) = 0 /\ ~pzlb
         THEN [raised |-> FALSE, object |-> [parsed |-> FALSE, value |-> body],
               parserCalls |-> 0]
         ELSE IF ParserAccepts(body)
              THEN [raised |-> FALSE,
                    object |-> [parsed |-> TRUE, value |-> body],
                    parserCalls |-> 1]
              ELSE [raised |-> TRUE, object |-> NoObject, parserCalls |-> 1]

\* parse_error: Response returns the body; JsonResponse and XmlResponse set
\* parse_error = parse_body
parse_error_raw(cls, pzlb, body) ==
    [raised |-> FALSE, object |-> [parsed |-> FALSE, value |-> body],
     parserCalls |-> 0]
parse_error(cls, pzlb, body) ==
    IF cls = "Response"
    THEN [raised |-> FALSE, object |-> [parsed |-> FALSE, value |-> body],
          parserCalls |-> 0]
    ELSE parse_body(cls, pzlb, body)

\* kind: "response", "raw" or "error"; err: the error raised; ok: what
\* success() returned; message, code and mapHeaders: what
\* exception_from_message got; errBody and errDriver: what
\* MalformedResponseError carries
NoResult ==
    [kind |-> "none", err |-> "", cls |-> "", status |-> 0, ok |-> FALSE,
     headers |-> NoHeaders, body |-> <<>>, object |-> NoObject,
     message |-> NoObject, parserCalls |-> 0, mapperCalls |-> 0, code |-> 0,
     mapHeaders |-> NoHeaders, errBody |-> <<>>, errDriver |-> NoDriver]

Raised(err) == [NoResult EXCEPT !.kind = "error", !.err = err]

\* Response.__init__ of the buffered classes
ResponseInit(cls, pzlb, status, text, hdrs, drv) ==
    LET body == ResponseBody(text)
        base == [NoResult EXCEPT !.cls = cls, !.status = status,
                                 !.headers = lowercase_keys(hdrs),
                                 !.ok = success(status), !.body = body]
    IN  IF ~success(status)
        THEN LET e == parse_error(cls, pzlb, body)
             IN  IF e.raised
                 THEN [base EXCEPT !.kind = "error", !.err = "malformed",
                                   !.parserCalls = e.parserCalls,
                                   !.errBody = body, !.errDriver = drv]
                 ELSE \* raise exception_from_message(code=self.status, ...)
                      [base EXCEPT !.kind = "error", !.err = "httperror",
                                   !.parserCalls = e.parserCalls,
                                   !.message = e.object,
                                   !.mapperCalls = 1, !.code = status,
                                   !.mapHeaders = base.headers]
        ELSE LET p == parse_body(cls, pzlb, body)
             IN  IF p.raised
                 THEN [base EXCEPT !.kind = "error", !.err = "malformed",
                                   !.parserCalls = p.parserCalls,
                                   !.errBody = body, !.errDriver = drv]
                 ELSE [base EXCEPT !.kind = "response",
                                   !.object = p.object,
                                   !.parserCalls = p.parserCalls]

\* RawResponse.__init__: headers, reason and status are taken from the
\* response; a non-success status calls parse_error(), which reads self.body
\* and so fetches the transport response, and whose value is dropped
RawResponseInit(status, hdrs) ==
    [NoResult EXCEPT !.kind = "raw", !.cls = "RawResponse",
                     !.status = status, !.headers = lowercase_keys(hdrs),
                     !.ok = success(status)]

NoRaw == [live |-> FALSE, fetched |-> FALSE, reasonCached |-> FALSE,
          fetches |-> 0, reads |-> 0, text |-> NoneText, reason |-> "",
          bodyVals |-> {}, reasonVals |-> {}]

\* RawResponse.response: fetch the transport response unless cached
RawFetch_mut(o) == [o EXCEPT !.fetched = TRUE, !.fetches = o.fetches + 1]
RawFetch(o) ==
    IF o.fetched THEN o
    ELSE [o EXCEPT !.fetched = TRUE, !.fetches = o.fetches + 1]

\* the lazy state of a RawResponse after __init__
RawObjInit_lazy(status, text, reason) ==
    [NoRaw EXCEPT !.live = TRUE, !.text = text, !.reason = reason]
RawObjInit(status, text, reason) ==
    LET o == [NoRaw EXCEPT !.live = TRUE, !.text = text, !.reason = reason]
    IN  IF success(status) THEN o ELSE RawFetch(o)

----------------------------------------------------------------------------
(* Connection: context, retry enablement, the transport exchange *)

\* Connection.reset_context
reset_context == {}

\* Connection.request: retry_enabled
retry_enabled_mut(rf, flag, env) ==
    LET fromEnvOrFlag == (env = "nonempty") \/ flag
    IN  IF rf = "True" THEN TRUE ELSE fromEnvOrFlag
retry_enabled_noenv(rf, flag, env) ==
    IF rf # "None" THEN rf = "True" ELSE flag
retry_enabled(rf, flag, env) ==
    LET fromEnvOrFlag == (env = "nonempty") \/ flag
    IN  IF rf # "None" THEN rf = "True" ELSE fromEnvOrFlag

\* Connection._retryable_request: one transport exchange and the construction
\* of the response.  t is what the transport does.
_retryable_request(ctx, t, raw, cls, pzlb, status, text) ==
    CASE t = "gaierror_m5" ->
            \* errno == -5: raise socket.gaierror(msg)
            [context |-> ctx, result |-> Raised("gaierror_m5")]
      [] t = "gaierror" ->
            [context |-> reset_context, result |-> Raised("gaierror")]
      [] t = "sslerror" ->
            [context |-> reset_context, result |-> Raised("sslerror")]
      [] t = "reset" ->
            \* an exception neither except clause names
            [context |-> ctx, result |-> Raised("reset")]
      [] t = "getresponse" ->
            \* self.connection.getresponse() raises, outside try/finally
            [context |-> ctx, result |-> Raised("getresponse")]
      [] OTHER ->
            [context |-> reset_context,
             result |-> IF raw THEN RawResponseInit(status, NoHeaders)
                        ELSE ResponseInit(cls, pzlb, status, text,
                                          NoHeaders, NoDriver)]

\* what request hands to its caller of a result: the kind, the error raised
\* and the status code the error carries
Outcome(r) == [kind |-> r.kind, err |-> r.err, code |-> r.code]

NoOutcome == Outcome(NoResult)

\* the retry class (libcloud.utils.retry.Retry): which failures are retried
Retryable(r) ==
    /\ r.kind = "error"
    /\ \/ r.err = "reset"
       \/ r.err = "httperror" /\ r.code = 429

NoRetry == [on |-> FALSE, delay |-> 0, timeout |-> 0, backoff |-> 0]

\* retryCls(retry_delay=..., timeout=..., backoff=...)
RetryCls(delay, timeout, backoff) ==
    [on |-> TRUE, delay |-> delay, timeout |-> timeout, backoff |-> backoff]

Ended == {"returned", "raised"}

NoArgs == [rf |-> "None", flag |-> FALSE, env |-> "unset", raw |-> FALSE]

\* set_context(context)
SetContext(c, isDict) ==
    /\ pc = "idle"
    /\ context' = IF isDict THEN c ELSE context
    /\ UNCHANGED <<connection, pc, args, retry, attempts, failures, elapsed,
                   transport, result>>
    /\ UNCHANGED <<respVars, pollVars, urlVars, initVars, callVars, raceVars>>

\* Connection.request up to the call of request_to_be_executed
RequestCall(rf, flag, env, raw, delay, timeout, backoff) ==
    /\ pc = "idle"
    /\ args' = [rf |-> rf, flag |-> flag, env |-> env, raw |-> raw]
    /\ connection' = "conn"
    /\ retry' = IF retry_enabled(rf, flag, env)
                THEN RetryCls(delay, timeout, backoff)
                ELSE NoRetry
    /\ attempts' = 0
    /\ failures' = 0
    /\ elapsed' = 0
    /\ transport' = "none"
    /\ result' = NoOutcome
    /\ pc' = "exchange"
    /\ UNCHANGED context
    /\ UNCHANGED <<respVars, pollVars, urlVars, initVars, callVars, raceVars>>

\* one invocation of _retryable_request, directly or by the retry loop
Exchange(t, dur, cls, pzlb, status, text) ==
    /\ pc = "exchange"
    /\ LET r == _retryable_request(context, t, args.raw, cls, pzlb, status,
                                   text)
       IN  /\ context' = r.context
           /\ result' = Outcome(r.result)
           /\ IF r.result.kind # "error"
              THEN pc' = "returned" /\ UNCHANGED failures
              ELSE IF retry.on /\ Retryable(r.result)
                   THEN pc' = "sleep" /\ failures' = failures + 1
                   ELSE pc' = "raised" /\ UNCHANGED failures
    /\ attempts' = attempts + 1
    /\ elapsed' = elapsed + dur
    /\ transport' = t
    /\ UNCHANGED <<connection, args, retry>>
    /\ UNCHANGED <<respVars, pollVars, urlVars, initVars, callVars, raceVars>>

\* the retry loop after a retryable failure: sleep for the current delay,
\* multiply the delay by backoff, retry unless the budget is exceeded
RetrySleep ==
    /\ pc = "sleep"
    /\ elapsed' = elapsed + retry.delay
    /\ retry' = [retry EXCEPT !.delay = retry.delay * retry.backoff]
    /\ pc' = IF elapsed' > retry.timeout THEN "raised" ELSE "exchange"
    /\ UNCHANGED <<context, connection, args, attempts, failures, transport,
                   result>>
    /\ UNCHANGED <<respVars, pollVars, urlVars, initVars, callVars, raceVars>>

\* the caller is done with what request returned or raised
Release ==
    /\ pc \in Ended
    /\ pc' = "idle"
    /\ args' = NoArgs
    /\ retry' = NoRetry
    /\ attempts' = 0
    /\ failures' = 0
    /\ elapsed' = 0
    /\ transport' = "none"
    /\ result' = NoOutcome
    /\ UNCHANGED <<context, connection>>
    /\ UNCHANGED <<respVars, pollVars, urlVars, initVars, callVars, raceVars>>

InitConn ==
    /\ context = {}
    /\ connection = "None"
    /\ pc = "idle"
    /\ args = NoArgs
    /\ retry = NoRetry
    /\ attempts = 0
    /\ failures = 0
    /\ elapsed = 0
    /\ transport = "none"
    /\ result = NoOutcome

NextConn ==
    \/ \E c \in Contexts, isDict \in BOOLEAN : SetContext(c, isDict)
    \/ pc = "idle" /\ \E rf \in RetryFailedArgs, flag \in BOOLEAN, env \in EnvValues,
          raw \in BOOLEAN, delay \in 1..MaxDelay, timeout \in 0..MaxTimeout,
          backoff \in 1..MaxBackoff :
            RequestCall(rf, flag, env, raw, delay, timeout, backoff)
    \/ pc = "exchange" /\ \E t \in TransportOutcomes, dur \in 0..MaxDur,
          cls \in ResponseClasses, pzlb \in BOOLEAN, status \in Statuses,
          text \in Texts :
            /\ t # "ok" => cls = "Response" /\ ~pzlb /\ status = 200
                           /\ text = NoneText
            /\ Exchange(t, dur, cls, pzlb, status, text)
    \/ RetrySleep
    \/ Release

----------------------------------------------------------------------------
(* Construction of a response and the lazy reads of a RawResponse *)

NoInput == [raw |-> FALSE, cls |-> "", pzlb |-> FALSE, status |-> 0,
            text |-> NoneText, reason |-> "", headers |-> NoHeaders,
            driver |-> NoDriver]

\* _retryable_request: response = responseCls(**kwargs)
Construct(raw, cls, pzlb, status, text, reason, hdrs, drv) ==
    /\ rpc = "none"
    /\ rin' = [raw |-> raw, cls |-> IF raw THEN "RawResponse" ELSE cls,
               pzlb |-> pzlb, status |-> status, text |-> text,
               reason |-> reason, headers |-> hdrs, driver |-> drv]
    /\ resp' = IF raw THEN RawResponseInit(status, hdrs)
               ELSE ResponseInit(cls, pzlb, status, text, hdrs, drv)
    /\ rawObj' = IF raw THEN RawObjInit(status, text, reason) ELSE NoRaw
    /\ rpc' = "built"
    /\ UNCHANGED <<connVars, pollVars, urlVars, initVars, callVars, raceVars>>

\* RawResponse.body
ReadBody ==
    /\ rpc = "built"
    /\ rawObj.live
    /\ rawObj.reads < MaxReads
    /\ LET o == RawFetch(rawObj)
       IN  rawObj' = [o EXCEPT !.reads = o.reads + 1,
                               !.bodyVals = o.bodyVals \cup {o.text}]
    /\ UNCHANGED <<rpc, rin, resp>>
    /\ UNCHANGED <<connVars, pollVars, urlVars, initVars, callVars, raceVars>>

\* RawResponse.reason
ReadReason ==
    /\ rpc = "built"
    /\ rawObj.live
    /\ rawObj.reads < MaxReads
    /\ LET o == IF rawObj.reasonCached THEN rawObj ELSE RawFetch(rawObj)
       IN  rawObj' = [o EXCEPT !.reads = o.reads + 1,
                               !.reasonCached = (o.reason # ""),
                               !.reasonVals = o.reasonVals \cup {o.reason}]
    /\ UNCHANGED <<rpc, rin, resp>>
    /\ UNCHANGED <<connVars, pollVars, urlVars, initVars, callVars, raceVars>>

\* the caller drops the response
Discard ==
    /\ rpc = "built"
    /\ rpc' = "none"
    /\ rin' = NoInput
    /\ resp' = NoResult
    /\ rawObj' = NoRaw
    /\ UNCHANGED <<connVars, pollVars, urlVars, initVars, callVars, raceVars>>

InitResp ==
    /\ rpc = "none"
    /\ rin = NoInput
    /\ resp = NoResult
    /\ rawObj = NoRaw

NextResp ==
    \/ /\ rpc = "none"
       /\ \E raw \in BOOLEAN, cls \in ResponseClasses, pzlb \in BOOLEAN,
             status \in Statuses, text \in Texts, reason \in Reasons,
             hdrs \in HeaderSets, drv \in Drivers :
               Construct(raw, cls, pzlb, status, text, reason, hdrs, drv)
    \/ ReadBody
    \/ ReadReason
    \/ Discard

----------------------------------------------------------------------------
(* PollingConnection.async_request *)

\* the job: has_completed is false for the first n poll responses and true
\* from the next on, or never true
Scripts == {[never |-> TRUE, n |-> 0]} \cup
           {[never |-> FALSE, n |-> n] : n \in 0..MaxN}

\* has_completed(response) of the k-th poll response
has_completed(script, k) == ~script.never /\ k > script.n

\* the extension points of PollingConnection and the sets of them a subclass
\* overrides
ExtensionPoints ==
    {"get_request_kwargs", "get_poll_request_kwargs", "has_completed"}
Overrides == SUBSET ExtensionPoints

\* whether the base-class method of an extension point raises
\* NotImplementedError
DefaultRaises_none(point) == FALSE
DefaultRaises(point) ==
    point \in {"get_poll_request_kwargs", "has_completed"}

\* the errors a request or a provider-supplied step may raise ("": none)
StepErrors == {"HTTPError", "KeyError"}
NoError == ""

NoFail == [step |-> "", err |-> NoError]

\* an exception raised inside async_request: there is no handler, it leaves
\* the method
OnRaise_timeout(step, e) == [pc |-> "timedout", err |-> "jobtimeout"]
OnRaise(step, e) == [pc |-> "failed", err |-> e]

\* async_request: while time.time() < end and not completed
LoopContinues_always(t, end, done) == t < end
LoopContinues_late(t, end, done) == t <= end /\ ~done
LoopContinues(t, end, done) == t < end /\ ~done

\* async_request: if not completed: time.sleep(self.poll_interval)
SleepsAfterPoll_always(done) == TRUE
SleepsAfterPoll(done) == ~done

\* time.sleep(self.poll_interval)
Wait_frozen(t, interval) == t
Wait(t, interval) == t + interval

\* the response the kwargs of a poll request are derived from: kwargs is
\* assigned before the loop and not inside it
PollKwargsSource_latest(from, latest) == latest
PollKwargsSource(from, latest) == from

\* PollingConnection.timeout: negative, zero or positive
PollTimeouts == {0 - 1} \cup (0..MaxPollTimeout)

\* more polls than any call can issue: polls start before the deadline and
\* are at least one wait apart
MaxPolls == MaxPollTimeout + 1

NoCounts == [inits |-> 0, extracts |-> 0, evals |-> 0, sleeps |-> 0,
             slept |-> 0]

NoPollCfg == [timeout |-> 0, interval |-> 0,
              script |-> [never |-> TRUE, n |-> 0], impl |-> {}]

PollEnded == {"completed", "timedout", "failed"}

\* async_request is called: kwargs = self.get_request_kwargs(...), the
\* method of the subclass or the one of the base class, which returns its
\* arguments
AsyncStart(timeout, interval, script, impl) ==
    /\ ppc = "idle"
    /\ pcfg' = [timeout |-> timeout, interval |-> interval,
                script |-> script, impl |-> impl]
    /\ IF "get_request_kwargs" \notin impl
          /\ DefaultRaises("get_request_kwargs")
       THEN LET r == OnRaise("get_request_kwargs", "NotImplementedError")
            IN  /\ ppc' = r.pc
                /\ perr' = r.err
                /\ pfail' = [step |-> "get_request_kwargs",
                             err |-> "NotImplementedError"]
       ELSE /\ ppc' = "initiating"
            /\ UNCHANGED <<perr, pfail>>
    /\ UNCHANGED <<now, pend, polls, completed, presp, pollStart, kwFrom,
                   pollFrom, counts>>
    /\ UNCHANGED <<connVars, respVars, urlVars, initVars, callVars, raceVars>>

\* response = request(**kwargs) returns after dur or raises reqErr;
\* kwargs = self.get_poll_request_kwargs(response=response, ...) returns or
\* raises; end = time.time() + self.timeout; completed = False
Initiate(dur, reqErr, extErr) ==
    /\ ppc = "initiating"
    /\ now' = now + dur
    /\ LET extRaised ==
               IF "get_poll_request_kwargs" \notin pcfg.impl
               THEN (IF DefaultRaises("get_poll_request_kwargs")
                     THEN "NotImplementedError" ELSE NoError)
               ELSE extErr
       IN  IF reqErr # NoError
           THEN LET r == OnRaise("request", reqErr)
                IN  /\ ppc' = r.pc
                    /\ perr' = r.err
                    /\ pfail' = [step |-> "request", err |-> reqErr]
                    /\ counts' = [counts EXCEPT !.inits = @ + 1]
                    /\ UNCHANGED <<pend, completed, presp, kwFrom>>
           ELSE IF extRaised # NoError
           THEN LET r == OnRaise("get_poll_request_kwargs", extRaised)
                IN  /\ ppc' = r.pc
                    /\ perr' = r.err
                    /\ pfail' = [step |-> "get_poll_request_kwargs",
                                 err |-> extRaised]
                    /\ presp' = 0
                    /\ counts' = [counts EXCEPT !.inits = @ + 1,
                                                !.extracts = @ + 1]
                    /\ UNCHANGED <<pend, completed, kwFrom>>
           ELSE /\ ppc' = "check"
                /\ presp' = 0
                /\ kwFrom' = 0
                /\ pend' = now' + pcfg.timeout
                /\ completed' = FALSE
                /\ counts' = [counts EXCEPT !.inits = @ + 1,
                                            !.extracts = @ + 1]
                /\ UNCHANGED <<perr, pfail>>
    /\ UNCHANGED <<pcfg, polls, pollStart, pollFrom>>
    /\ UNCHANGED <<connVars, respVars, urlVars, initVars, callVars, raceVars>>

\* the loop condition, then either the next poll request is issued or the
\* loop is left: raise LibcloudError("Job did not complete ...") or return
LoopCheck ==
    /\ ppc = "check"
    /\ IF LoopContinues(now, pend, completed)
       THEN /\ polls < MaxPolls
            /\ ppc' = "polling"
            /\ pollStart' = now
            /\ polls' = polls + 1
            /\ pollFrom' = PollKwargsSource(kwFrom, presp)
            /\ UNCHANGED perr
       ELSE /\ IF ~completed
               THEN ppc' = "timedout" /\ perr' = "jobtimeout"
               ELSE ppc' = "completed" /\ UNCHANGED perr
            /\ UNCHANGED <<pollStart, polls, pollFrom>>
    /\ UNCHANGED <<pcfg, now, pend, completed, presp, pfail, kwFrom, counts>>
    /\ UNCHANGED <<connVars, respVars, urlVars, initVars, callVars, raceVars>>

\* response = request(**kwargs) of a poll returns after dur or raises
\* reqErr; completed = self.has_completed(response=response) returns or
\* raises
Poll(dur, reqErr, predErr) ==
    /\ ppc = "polling"
    /\ now' = now + dur
    /\ LET predRaised ==
               IF "has_completed" \notin pcfg.impl
               THEN (IF DefaultRaises("has_completed")
                     THEN "NotImplementedError" ELSE NoError)
               ELSE predErr
       IN  IF reqErr # NoError
           THEN LET r == OnRaise("request", reqErr)
                IN  /\ ppc' = r.pc
                    /\ perr' = r.err
                    /\ pfail' = [step |-> "request", err |-> reqErr]
                    /\ UNCHANGED <<completed, presp, counts>>
           ELSE IF predRaised # NoError
           THEN LET r == OnRaise("has_completed", predRaised)
                IN  /\ ppc' = r.pc
                    /\ perr' = r.err
                    /\ pfail' = [step |-> "has_completed",
                                 err |-> predRaised]
                    /\ presp' = polls
                    /\ counts' = [counts EXCEPT !.evals = @ + 1]
                    /\ UNCHANGED completed
           ELSE /\ presp' = polls
                /\ completed' = has_completed(pcfg.script, polls)
                /\ counts' = [counts EXCEPT !.evals = @ + 1]
                /\ ppc' = IF SleepsAfterPoll(completed')
                          THEN "sleeping" ELSE "check"
                /\ UNCHANGED <<perr, pfail>>
    /\ UNCHANGED <<pcfg, pend, polls, pollStart, kwFrom, pollFrom>>
    /\ UNCHANGED <<connVars, respVars, urlVars, initVars, callVars, raceVars>>

\* if not completed: time.sleep(self.poll_interval)
PollSleep ==
    /\ ppc = "sleeping"
    /\ now' = Wait(now, pcfg.interval)
    /\ counts' = [counts EXCEPT !.sleeps = @ + 1,
                                !.slept = @ + (now' - now)]
    /\ ppc' = "check"
    /\ UNCHANGED <<pcfg, pend, polls, completed, presp, pollStart, perr,
                   pfail, kwFrom, pollFrom>>
    /\ UNCHANGED <<connVars, respVars, urlVars, initVars, callVars, raceVars>>

\* the caller is done with what async_request returned or raised
PollRelease ==
    /\ ppc \in PollEnded
    /\ ppc' = "idle"
    /\ pcfg' = NoPollCfg
    /\ now' = 0
    /\ pend' = 0
    /\ polls' = 0
    /\ completed' = FALSE
    /\ presp' = 0
    /\ pollStart' = 0
    /\ perr' = NoError
    /\ pfail' = NoFail
    /\ kwFrom' = 0
    /\ pollFrom' = 0
    /\ counts' = NoCounts
    /\ UNCHANGED <<connVars, respVars, urlVars, initVars, callVars, raceVars>>

InitPoll ==
    /\ ppc = "idle"
    /\ pcfg = NoPollCfg
    /\ now = 0
    /\ pend = 0
    /\ polls = 0
    /\ completed = FALSE
    /\ presp = 0
    /\ pollStart = 0
    /\ perr = NoError
    /\ pfail = NoFail
    /\ kwFrom = 0
    /\ pollFrom = 0
    /\ counts = NoCounts

NextPoll ==
    \/ /\ ppc = "idle"
       /\ \E timeout \in PollTimeouts, interval \in 1..MaxInterval,
             script \in Scripts, impl \in Overrides :
               AsyncStart(timeout, interval, script, impl)
    \/ /\ ppc = "initiating"
       /\ \E dur \in 0..MaxDur, reqErr \in StepErrors \cup {NoError},
             extErr \in StepErrors \cup {NoError} :
               /\ reqErr # NoError => extErr = NoError
               /\ Initiate(dur, reqErr, extErr)
    \/ LoopCheck
    \/ /\ ppc = "polling"
       /\ \E dur \in 0..MaxDur, reqErr \in StepErrors \cup {NoError},
             predErr \in StepErrors \cup {NoError} :
               /\ reqErr # NoError => predErr = NoError
               /\ Poll(dur, reqErr, predErr)
    \/ PollSleep
    \/ PollRelease

----------------------------------------------------------------------------
(* Connection.morph_action_hook and the URL of Connection.request.  Strings *)
(* are sequences of one-character strings.                                  *)

RECURSIVE StringsUpTo(_, _)
StringsUpTo(alphabet, n) ==
    IF n = 0 THEN {<<>>}
    ELSE LET shorter == StringsUpTo(alphabet, n - 1)
         IN  shorter \cup {Append(w, c) : w \in shorter, c \in alphabet}

\* request_path: the path of the connection's URL
Prefixes == StringsUpTo({"/", "a"}, MaxPrefixLen)
\* action: a path that may carry a query string
Actions == StringsUpTo({"/", "a", ".", "?"}, MaxActionLen)

Contains(s, c) == \E i \in 1..Len(s) : s[i] = c

\* str.lstrip("/") and str.rstrip("/")
RECURSIVE lstrip_slash(_)
lstrip_slash(s) ==
    IF s # <<>> /\ Head(s) = "/" THEN lstrip_slash(Tail(s)) ELSE s

RECURSIVE rstrip_slash(_)
rstrip_slash(s) ==
    IF s # <<>> /\ s[Len(s)] = "/"
    THEN rstrip_slash(SubSeq(s, 1, Len(s) - 1))
    ELSE s

\* str.split(sep): the segments between the separators
RECURSIVE Split(_, _)
Split(s, sep) ==
    IF ~Contains(s, sep) THEN <<s>>
    ELSE LET i == CHOOSE k \in 1..Len(s) :
                      s[k] = sep /\ \A j \in 1..(k - 1) : s[j] # sep
         IN  <<SubSeq(s, 1, i - 1)>> \o Split(SubSeq(s, i + 1, Len(s)), sep)

\* sep.join(parts)
RECURSIVE Join(_, _)
Join(parts, sep) ==
    IF parts = <<>> THEN <<>>
    ELSE IF Len(parts) = 1 THEN parts[1]
    ELSE parts[1] \o <<sep>> \o Join(Tail(parts), sep)

\* filter(None, segments)
RECURSIVE NonEmpty(_)
NonEmpty(parts) ==
    IF parts = <<>> THEN <<>>
    ELSE IF Head(parts) = <<>> THEN NonEmpty(Tail(parts))
    ELSE <<Head(parts)>> \o NonEmpty(Tail(parts))

\* urlparse of a reference without scheme, netloc, params or fragment
UrlPath(u) ==
    IF Contains(u, "?") THEN Split(u, "?")[1] ELSE u
UrlQuery(u) ==
    IF Contains(u, "?")
    THEN SubSeq(u, Len(Split(u, "?")[1]) + 2, Len(u))
    ELSE <<>>
\* urlunparse
UrlUnparse(path, query) ==
    IF query # <<>> THEN path \o <<"?">> \o query ELSE path

\* urljoin: the loop that resolves "." and ".." segments
RECURSIVE ResolveDots(_, _)
ResolveDots(segments, resolved) ==
    IF segments = <<>> THEN resolved
    ELSE LET seg == Head(segments)
         IN  IF seg = <<".", ".">>
             THEN ResolveDots(Tail(segments),
                              IF resolved = <<>> THEN <<>>
                              ELSE SubSeq(resolved, 1, Len(resolved) - 1))
             ELSE IF seg = <<".">>
             THEN ResolveDots(Tail(segments), resolved)
             ELSE ResolveDots(Tail(segments), Append(resolved, seg))

\* urlparse.urljoin(base, u) for a base and a reference without scheme and
\* netloc
urljoin(base, u) ==
    IF base = <<>> THEN u
    ELSE IF u = <<>> THEN base
    ELSE
    LET bpath == UrlPath(base)
        bquery == UrlQuery(base)
        path == UrlPath(u)
        query == UrlQuery(u)
    IN  IF path = <<>>
        THEN UrlUnparse(bpath, IF query = <<>> THEN bquery ELSE query)
        ELSE
        LET bsplit == Split(bpath, "/")
            base_parts == IF bsplit[Len(bsplit)] # <<>>
                          THEN SubSeq(bsplit, 1, Len(bsplit) - 1)
                          ELSE bsplit
            joined == base_parts \o Split(path, "/")
            segments ==
                IF Head(path) = "/" THEN Split(path, "/")
                ELSE IF Len(joined) < 2 THEN joined
                ELSE <<joined[1]>>
                     \o NonEmpty(SubSeq(joined, 2, Len(joined) - 1))
                     \o <<joined[Len(joined)]>>
            last == segments[Len(segments)]
            resolved == ResolveDots(segments, <<>>)
            closed == IF last = <<".">> \/ last = <<".", ".">>
                      THEN Append(resolved, <<>>)
                      ELSE resolved
            newpath == IF Join(closed, "/") = <<>> THEN <<"/">>
                       ELSE Join(closed, "/")
        IN  UrlUnparse(newpath, query)

\* Connection.morph_action_hook; allow is ALLOW_PATH_DOUBLE_SLASHES
morph_action_hook_nostrip(request_path, action, allow) ==
    IF allow THEN request_path \o action
    ELSE LET u == urljoin(rstrip_slash(lstrip_slash(request_path)) \o <<"/">>,
                          action)
         IN  IF u = <<>> \/ Head(u) # "/" THEN <<"/">> \o u ELSE u
morph_action_hook(request_path, action, allow) ==
    IF allow THEN request_path \o action
    ELSE LET u == urljoin(rstrip_slash(lstrip_slash(request_path)) \o <<"/">>,
                          lstrip_slash(action))
         IN  IF u = <<>> \/ Head(u) # "/" THEN <<"/">> \o u ELSE u

\* quote_plus of one character
QuotePlus(c) ==
    CASE c = "?" -> <<"%", "3", "F">>
      [] c = "/" -> <<"%", "2", "F">>
      [] c = " " -> <<"+">>
      [] OTHER -> <<c>>

\* urlencode(params, doseq=True): params is the sequence of the mapping's
\* (key, value) pairs, each a character
RECURSIVE urlencode(_)
urlencode(params) ==
    IF params = <<>> THEN <<>>
    ELSE LET pair == QuotePlus(params[1][1]) \o <<"=">>
                     \o QuotePlus(params[1][2])
         IN  IF Len(params) = 1 THEN pair
             ELSE pair \o <<"&">> \o urlencode(Tail(params))

\* the params argument of request: None or a mapping
NoneParams == [none |-> TRUE, items |-> <<>>]
Params(items) == [none |-> FALSE, items |-> items]
ParamsArgs == {NoneParams, Params(<<>>), Params(<<<<"k", "a">>>>),
               Params(<<<<"k", "?">>>>)}

\* binascii.hexlify(os.urandom(8)): one of the hex strings
CacheBustingValues == {"0", "f"}

\* Connection._add_cache_busting_to_params
_add_cache_busting_to_params(params, value) ==
    Append(params, <<"c", value>>)

\* request: params after the copy, add_default_params, cache busting and
\* pre_connect_hook
FinalParams(p, cache_busting, method, value) ==
    LET copied == IF p.none THEN <<>> ELSE p.items
    IN  IF cache_busting /\ method = "GET"
        THEN _add_cache_busting_to_params(copied, value)
        ELSE copied

\* request: the url handed to the transport
BuildUrl_always_q(action, params) ==
    IF params # <<>>
    THEN action \o <<"?">> \o urlencode(params)
    ELSE action
BuildUrl(action, params) ==
    IF params # <<>>
    THEN IF Contains(action, "?")
         THEN action \o <<"&">> \o urlencode(params)
         ELSE action \o <<"?">> \o urlencode(params)
    ELSE action

NoUrlInput == [request_path |-> <<>>, action |-> <<>>, allow |-> FALSE]

\* Connection.request from its start to the url it hands to the transport
RequestUrl(request_path, action, allow, p, cache_busting, method, value) ==
    /\ upc = "idle"
    /\ uin' = [request_path |-> request_path, action |-> action,
               allow |-> allow]
    /\ uaction' = morph_action_hook(request_path, action, allow)
    /\ uparams' = FinalParams(p, cache_busting, method, value)
    /\ url' = BuildUrl(uaction', uparams')
    /\ upc' = "built"
    /\ UNCHANGED <<connVars, respVars, pollVars, initVars, callVars, raceVars>>

\* the request call is over
UrlRelease ==
    /\ upc = "built"
    /\ upc' = "idle"
    /\ uin' = NoUrlInput
    /\ uaction' = <<>>
    /\ uparams' = <<>>
    /\ url' = <<>>
    /\ UNCHANGED <<connVars, respVars, pollVars, initVars, callVars, raceVars>>

InitUrl ==
    /\ upc = "idle"
    /\ uin = NoUrlInput
    /\ uaction = <<>>
    /\ uparams = <<>>
    /\ url = <<>>

NextUrl ==
    \/ upc = "idle" /\ \E request_path \in Prefixes, action \in Actions, allow \in BOOLEAN,
          p \in ParamsArgs, cache_busting \in BOOLEAN,
          method \in {"GET", "POST"}, value \in CacheBustingValues :
            /\ ~(cache_busting /\ method = "GET") => value = "0"
            /\ RequestUrl(request_path, action, allow, p, cache_busting,
                          method, value)
    \/ UrlRelease

----------------------------------------------------------------------------
(* Connection.__init__ and Connection._tuple_from_url *)

\* the port argument: None or an integer
NonePort == [none |-> TRUE, n |-> 0]
Port(n) == [none |-> FALSE, n |-> n]
PortArgs == {NonePort, Port(0), Port(81)}

\* the host argument: None (<<>>) or a name
HostArgs == {<<>>, <<"h">>}
DefaultHost == <<"1", "2", "7", ".", "0", ".", "0", ".", "1">>

\* the url argument: None, or a URL as urlparse splits it
NoneUrl == [none |-> TRUE, scheme |-> "", netloc |-> <<>>, path |-> <<>>]
Schemes == {"http", "https", "ftp", ""}
Netlocs == {<<"h">>, <<"h", ":", "0">>, <<"h", ":", "8", "1">>,
            <<"h", ":", "x">>, <<"h", ":", "-", "1">>, <<"h", ":">>,
            <<"a", ":", "b", ":", "1">>}
UrlPaths == {<<>>, <<"/", "a">>}
UrlArgs == {NoneUrl} \cup
           {[none |-> FALSE, scheme |-> sc, netloc |-> nl, path |-> pa] :
                sc \in Schemes, nl \in Netlocs, pa \in UrlPaths}

Digits == <<"0", "1", "2", "3", "4", "5", "6", "7", "8", "9">>
IsDigit(c) == \E i \in 1..Len(Digits) : Digits[i] = c
DigitValue(c) == (CHOOSE i \in 1..Len(Digits) : Digits[i] = c) - 1

RECURSIVE DigitsValue(_)
DigitsValue(s) ==
    IF s = <<>> THEN 0
    ELSE 10 * DigitsValue(SubSeq(s, 1, Len(s) - 1)) + DigitValue(s[Len(s)])

\* int(s) of a string: ok is false where int raises ValueError
int(s) ==
    LET neg == s # <<>> /\ Head(s) = "-"
        ds == IF neg THEN Tail(s) ELSE s
    IN  IF ds = <<>> \/ \E i \in 1..Len(ds) : ~IsDigit(ds[i])
        THEN [ok |-> FALSE, n |-> 0]
        ELSE [ok |-> TRUE,
              n |-> IF neg THEN 0 - DigitsValue(ds) ELSE DigitsValue(ds)]

NoConn == [kind |-> "none", err |-> "", host |-> <<>>, port |-> NonePort,
           secure |-> 0, request_path |-> <<>>, connection |-> "None"]

InitRaised(err) == [NoConn EXCEPT !.kind = "error", !.err = err]

\* Connection._tuple_from_url
_tuple_from_url(urlArg) ==
    IF urlArg.scheme \notin {"http", "https"}
    THEN [raised |-> TRUE, err |-> "LibcloudError", host |-> <<>>,
          port |-> 0, secure |-> 0, request_path |-> <<>>]
    ELSE LET secure == IF urlArg.scheme = "http" THEN 0 ELSE 1
             hasColon == Contains(urlArg.netloc, ":")
             parts == Split(urlArg.netloc, ":")
             parsed == IF hasColon /\ Len(parts) = 2 THEN int(parts[2])
                       ELSE [ok |-> FALSE, n |-> 0]
             bad == hasColon /\ (Len(parts) # 2 \/ ~parsed.ok)
             given == IF hasColon THEN parsed.n ELSE 0
             port == IF given = 0
                     THEN (IF urlArg.scheme = "http" THEN 80 ELSE 443)
                     ELSE given
         IN  IF bad
             THEN [raised |-> TRUE, err |-> "ValueError", host |-> <<>>,
                   port |-> 0, secure |-> 0, request_path |-> <<>>]
             ELSE [raised |-> FALSE, err |-> "",
                   host |-> IF hasColon THEN parts[1] ELSE urlArg.netloc,
                   port |-> port, secure |-> secure,
                   request_path |-> urlArg.path]

\* Connection.__init__: the port taken from the port argument or from secure
InitPort_const(secure, port) == IF port.none THEN 443 ELSE port.n
InitPort(secure, port) ==
    IF ~port.none THEN port.n
    ELSE IF secure THEN 443 ELSE 80

\* Connection.__init__: the test that refuses an insecure connection
Forbidden_never(allow_insecure, secure) == FALSE
Forbidden(allow_insecure, secure) == ~allow_insecure /\ ~secure

\* Connection.__init__
ConnectionInit(allow_insecure, secure, host, port, urlArg) ==
    IF Forbidden(allow_insecure, secure)
    THEN InitRaised("ValueError")
    ELSE LET obj == [NoConn EXCEPT
                        !.kind = "conn",
                        !.secure = IF secure THEN 1 ELSE 0,
                        !.host = IF host # <<>> THEN host ELSE DefaultHost,
                        !.port = Port(InitPort(secure, port))]
         IN  IF urlArg.none THEN obj
             ELSE LET t == _tuple_from_url(urlArg)
                  IN  IF t.raised THEN InitRaised(t.err)
                      ELSE [obj EXCEPT !.host = t.host,
                                       !.port = Port(t.port),
                                       !.secure = t.secure,
                                       !.request_path = t.request_path]

\* the base_url argument of connect and the base_url attribute of the class
ConnectUrls ==
    {NoneUrl,
     [none |-> FALSE, scheme |-> "http", netloc |-> <<"g", ":", "8", "2">>,
      path |-> <<>>],
     [none |-> FALSE, scheme |-> "https", netloc |-> <<"k">>,
      path |-> <<"/", "a">>],
     [none |-> FALSE, scheme |-> "ftp", netloc |-> <<"g">>, path |-> <<>>]}

NoTransport == [opened |-> FALSE, err |-> "", host |-> <<>>, port |-> 0,
                secure |-> 0, args |-> [host |-> <<>>, port |-> NonePort,
                                        base_url |-> NoneUrl,
                                        attr |-> NoneUrl]]

\* the URL connect resolves: the base_url argument when given, else the
\* base_url attribute
ConnectBaseUrl(base_url, attr) ==
    IF ~attr.none /\ base_url.none THEN attr ELSE base_url

\* connect: the secure entry of the kwargs conn_class is called with; the
\* local secure that the URL was resolved into is not used
ConnectSecure(self, resolved) == self.secure

\* Connection.connect(host, port, base_url): what conn_class is called with
connect(self, host, port, base_url, attr) ==
    LET given == ConnectBaseUrl(base_url, attr)
        t == _tuple_from_url(given)
        a == [host |-> host, port |-> port, base_url |-> base_url,
              attr |-> attr]
    IN  IF ~given.none
        THEN IF t.raised
             THEN [NoTransport EXCEPT !.err = t.err, !.args = a]
             ELSE [NoTransport EXCEPT
                      !.opened = TRUE, !.host = t.host, !.port = t.port,
                      !.secure = ConnectSecure(self, t.secure), !.args = a]
        ELSE [NoTransport EXCEPT
                 !.opened = TRUE,
                 !.host = IF host # <<>> THEN host ELSE self.host,
                 !.port = IF ~port.none /\ port.n # 0 THEN port.n
                          ELSE self.port.n,
                 !.secure = ConnectSecure(self, self.secure), !.args = a]

NoInitInput == [allow_insecure |-> TRUE, secure |-> TRUE, host |-> <<>>,
                port |-> NonePort, url |-> NoneUrl]

\* cls(secure=..., host=..., port=..., url=...)
New(allow_insecure, secure, host, port, urlArg) ==
    /\ ipc = "none"
    /\ iin' = [allow_insecure |-> allow_insecure, secure |-> secure,
               host |-> host, port |-> port, url |-> urlArg]
    /\ iobj' = ConnectionInit(allow_insecure, secure, host, port, urlArg)
    /\ ipc' = IF iobj'.kind = "conn" THEN "built" ELSE "failed"
    /\ UNCHANGED iconn
    /\ UNCHANGED <<connVars, respVars, pollVars, urlVars, callVars, raceVars>>

\* self.connect(host, port, base_url) on a constructed Connection
Connect(host, port, base_url, attr) ==
    /\ ipc = "built"
    /\ iconn' = connect(iobj, host, port, base_url, attr)
    /\ iobj' = IF iconn'.opened THEN [iobj EXCEPT !.connection = "conn"]
               ELSE iobj
    /\ ipc' = IF iconn'.opened THEN "connected" ELSE "unconnected"
    /\ UNCHANGED iin
    /\ UNCHANGED <<connVars, respVars, pollVars, urlVars, callVars, raceVars>>

\* the caller drops the connection object or handles the error
Drop ==
    /\ ipc \in {"built", "failed", "connected", "unconnected"}
    /\ ipc' = "none"
    /\ iin' = NoInitInput
    /\ iobj' = NoConn
    /\ iconn' = NoTransport
    /\ UNCHANGED <<connVars, respVars, pollVars, urlVars, callVars, raceVars>>

InitInit ==
    /\ ipc = "none"
    /\ iin = NoInitInput
    /\ iobj = NoConn
    /\ iconn = NoTransport

NextInit ==
    \/ /\ ipc = "none"
       /\ \E allow_insecure \in BOOLEAN, secure \in BOOLEAN, host \in HostArgs,
             port \in PortArgs, urlArg \in UrlArgs :
               New(allow_insecure, secure, host, port, urlArg)
    \/ /\ ipc = "built"
       /\ \E host \in HostArgs, port \in PortArgs, base_url \in ConnectUrls,
             attr \in ConnectUrls :
               Connect(host, port, base_url, attr)
    \/ Drop

----------------------------------------------------------------------------
(* Connection.request on one Connection: the copies of params and headers, *)
(* the per-call attributes and the lazy connect                            *)

\* the headers argument of request: None or a mapping, a set of
\* (name, value) pairs
NoneHeaders == [none |-> TRUE, items |-> {}]
Headers(items) == [none |-> FALSE, items |-> items]
HeadersArgs == {NoneHeaders, Headers({}), Headers({<<"X-A", "1">>}),
                Headers({<<"Host", "x">>})}

\* dict.update({name: value})
Update(h, name, value) == {e \in h : e[1] # name} \cup {<<name, value>>}

\* the references to the mappings of a call
Refs == {"caller", "work"}

\* copy.copy(mapping): a new object
CopyRef_alias(src) == src
CopyRef(src) == "work"

\* the mapping request works on: a new empty one for None, else a copy
WorkRef(arg) == IF arg.none THEN "work" ELSE CopyRef("caller")

\* the action, method and data arguments
CallActions == {<<"a">>, <<"b", "/">>}
Methods == {"GET", "POST"}
DataArgs == {"None", "d"}
\* self.port
CallPorts == {443, 81}

UnsetAction == [set |-> FALSE, v |-> <<>>]

\* request: self.action = action; self.method = method; self.data = data
StoreCall_skip(inst, action, method, data) == inst
StoreCall(inst, action, method, data) ==
    [inst EXCEPT !.action = [set |-> TRUE, v |-> action],
                 !.method = method, !.data = data]

\* request: if self.connection is None
NeedsConnect_always(conn) == TRUE
NeedsConnect(conn) == conn = "None"

\* the Host header request sends
HostHeader(port) == IF port \in {80, 443} THEN "h" ELSE "h:81"

\* params of the call: the mappings after the copy, add_default_params (a
\* provider hook that may add an entry in place) and cache busting
CallParams(p, hookAdds, cache_busting, method, value) ==
    LET ref == WorkRef(p)
        h0 == [r \in Refs |-> IF r = "caller" THEN p.items ELSE <<>>]
        h1 == IF p.none THEN h0 ELSE [h0 EXCEPT ![ref] = h0["caller"]]
        h2 == IF hookAdds
              THEN [h1 EXCEPT ![ref] = Append(@, <<"d", "1">>)]
              ELSE h1
        h3 == IF cache_busting /\ method = "GET"
              THEN [h2 EXCEPT ![ref] = _add_cache_busting_to_params(@, value)]
              ELSE h2
    IN  [caller |-> h3["caller"], sent |-> h3[ref]]

\* headers of the call: the mappings after the copy, add_default_headers (a
\* provider hook that may add an entry in place) and the three updates
CallHeaders(h, hookAdds, port) ==
    LET ref == WorkRef(h)
        h0 == [r \in Refs |-> IF r = "caller" THEN h.items ELSE {}]
        h1 == IF h.none THEN h0 ELSE [h0 EXCEPT ![ref] = h0["caller"]]
        h2 == IF hookAdds
              THEN [h1 EXCEPT ![ref] = Update(@, "Authorization", "t")]
              ELSE h1
        h3 == [h2 EXCEPT ![ref] = Update(@, "User-Agent", "libcloud")]
        h4 == [h3 EXCEPT ![ref] = Update(@, "Accept-Encoding", "gzip,deflate")]
        h5 == [h4 EXCEPT ![ref] = Update(@, "Host", HostHeader(port))]
    IN  [caller |-> h5["caller"], sent |-> h5[ref]]

NoCallInput == [action |-> <<>>, params |-> NoneParams,
                headers |-> NoneHeaders, method |-> "GET", data |-> "None",
                hadConn |-> FALSE]

NoMappings(empty) == [caller |-> empty, sent |-> empty]

NewInstance == [action |-> UnsetAction, method |-> "unset",
                data |-> "unset", connection |-> "None", opened |-> 0]

\* Connection.request up to the call of request_to_be_executed; connectOk:
\* whether connect, when called, returns
CallRequest(action, p, h, method, data, cache_busting, value, hookAdds, port, connectOk) ==
    /\ cpc = "idle"
    /\ cin' = [action |-> action, params |-> p, headers |-> h,
               method |-> method, data |-> data,
               hadConn |-> cinst.connection # "None"]
    /\ cparams' = CallParams(p, hookAdds, cache_busting, method, value)
    /\ cheaders' = CallHeaders(h, hookAdds, port)
    /\ LET connects == NeedsConnect(cinst.connection)
           opens == connects /\ connectOk
       IN  /\ cconnects' = IF connects THEN 1 ELSE 0
           /\ cpc' = IF connects /\ ~connectOk THEN "raised" ELSE "running"
           /\ cinst' = [StoreCall(cinst,
                                  morph_action_hook(<<>>, action, FALSE),
                                  method, data)
                          EXCEPT !.connection = IF opens THEN "conn" ELSE @,
                                 !.opened = IF opens THEN @ + 1 ELSE @]
    /\ UNCHANGED <<connVars, respVars, pollVars, urlVars, initVars, raceVars>>

\* request_to_be_executed(...) returns a response or raises
CallExchange(ok) ==
    /\ cpc = "running"
    /\ cpc' = IF ok THEN "returned" ELSE "raised"
    /\ UNCHANGED <<cin, cparams, cheaders, cinst, cconnects>>
    /\ UNCHANGED <<connVars, respVars, pollVars, urlVars, initVars, raceVars>>

\* the caller is done with the call; the Connection stays
CallRelease ==
    /\ cpc \in {"returned", "raised"}
    /\ cpc' = "idle"
    /\ cin' = NoCallInput
    /\ cparams' = NoMappings(<<>>)
    /\ cheaders' = NoMappings({})
    /\ cconnects' = 0
    /\ UNCHANGED cinst
    /\ UNCHANGED <<connVars, respVars, pollVars, urlVars, initVars, raceVars>>

InitCall ==
    /\ cpc = "idle"
    /\ cin = NoCallInput
    /\ cparams = NoMappings(<<>>)
    /\ cheaders = NoMappings({})
    /\ cinst = NewInstance
    /\ cconnects = 0

NextCall ==
    \/ /\ cpc = "idle"
       /\ \E action \in CallActions, p \in ParamsArgs, h \in HeadersArgs,
             method \in Methods, data \in DataArgs, cache_busting \in BOOLEAN,
             value \in CacheBustingValues, hookAdds \in BOOLEAN,
             port \in CallPorts, connectOk \in BOOLEAN :
               /\ ~(cache_busting /\ method = "GET") => value = "0"
               /\ cinst.connection # "None" => connectOk
               /\ CallRequest(action, p, h, method, data, cache_busting,
                              value, hookAdds, port, connectOk)
    \/ \E ok \in BOOLEAN : CallExchange(ok)
    \/ CallRelease

----------------------------------------------------------------------------
(* Two threads calling request on one Connection *)

Threads == {1, 2}

\* the arguments of each thread's call and the context its caller sets
RaceArgs(t) ==
    IF t = 1
    THEN [action |-> <<"/", "a">>, method |-> "GET", data |-> "None",
          context |-> {<<"job", 1>>}]
    ELSE [action |-> <<"/", "b">>, method |-> "POST", data |-> "d",
          context |-> {<<"job", 2>>}]

\* a Connection after construction: self.context = {}, no call made
RaceInstance ==
    [action |-> UnsetAction, method |-> "unset", data |-> "unset",
     context |-> reset_context]

IdleThread == [pc |-> "idle", setCtx |-> FALSE]

\* the calls stay serialized as long as each begins with no other call on
\* the instance in progress
StartsAlone(t) == \A u \in Threads \ {t} : rth[u].pc = "idle"

\* Connection.set_context, called by the caller ahead of request
RaceSetContext(t) ==
    /\ rth[t].pc = "idle"
    /\ rself' = [rself EXCEPT !.context = RaceArgs(t).context]
    /\ rth' = [rth EXCEPT ![t] = [pc |-> "ctx", setCtx |-> TRUE]]
    /\ rser' = (rser /\ StartsAlone(t))
    /\ UNCHANGED <<connVars, respVars, pollVars, urlVars, initVars, callVars>>

\* request: self.action = action (after morph_action_hook), by a caller
\* that has set a context or by one that has set none
RaceStoreAction(t) ==
    /\ rth[t].pc \in {"idle", "ctx"}
    /\ rself' = [rself EXCEPT
                    !.action = [set |-> TRUE, v |-> RaceArgs(t).action]]
    /\ rth' = [rth EXCEPT ![t].pc = "action"]
    /\ rser' = IF rth[t].pc = "idle" THEN rser /\ StartsAlone(t) ELSE rser
    /\ UNCHANGED <<connVars, respVars, pollVars, urlVars, initVars, callVars>>

\* request: self.method = method
RaceStoreMethod(t) ==
    /\ rth[t].pc = "action"
    /\ rself' = [rself EXCEPT !.method = RaceArgs(t).method]
    /\ rth' = [rth EXCEPT ![t].pc = "method"]
    /\ UNCHANGED rser
    /\ UNCHANGED <<connVars, respVars, pollVars, urlVars, initVars, callVars>>

\* request: self.data = data
RaceStoreData(t) ==
    /\ rth[t].pc = "method"
    /\ rself' = [rself EXCEPT !.data = RaceArgs(t).data]
    /\ rth' = [rth EXCEPT ![t].pc = "stored"]
    /\ UNCHANGED rser
    /\ UNCHANGED <<connVars, respVars, pollVars, urlVars, initVars, callVars>>

\* request: the hooks, the URL, then _retryable_request, which leaves the
\* context as the exchange o ends; the call returns or raises
RaceExchange(t, o) ==
    /\ rth[t].pc = "stored"
    /\ rself' = [rself EXCEPT
                    !.context = _retryable_request(rself.context, o, TRUE,
                                    "Response", FALSE, 200, <<>>).context]
    /\ rth' = [rth EXCEPT ![t] = IdleThread]
    /\ UNCHANGED rser
    /\ UNCHANGED <<connVars, respVars, pollVars, urlVars, initVars, callVars>>

InitRace ==
    /\ rser = TRUE
    /\ rself = RaceInstance
    /\ rth = [t \in Threads |-> IdleThread]

NextRace ==
    \/ \E t \in Threads : RaceSetContext(t)
    \/ \E t \in Threads : RaceStoreAction(t)
    \/ \E t \in Threads : RaceStoreMethod(t)
    \/ \E t \in Threads : RaceStoreData(t)
    \/ \E t \in Threads, o \in TransportOutcomes : RaceExchange(t, o)

----------------------------------------------------------------------------
(* Specifications *)

Init ==
    /\ InitConn /\ InitResp /\ InitPoll /\ InitUrl /\ InitInit /\ InitCall
    /\ InitRace

Next == NextConn

\* Connection.request: retry wrapping, exchanges, the per-call context
Spec == Init /\ [][Next]_vars

\* construction of responses of every class, reads of a raw response
SpecResponse == Init /\ [][NextResp]_vars

\* PollingConnection.async_request
SpecPoll == Init /\ [][NextPoll]_vars

\* async_request run by a thread that keeps running: each request returns or
\* raises, each wait ends
SpecPollLive == Init /\ [][NextPoll]_vars /\ WF_vars(NextPoll)

\* morph_action_hook and the URL building of Connection.request
SpecUrl == Init /\ [][NextUrl]_vars

\* construction of a Connection
SpecInit == Init /\ [][NextInit]_vars

\* a sequence of request calls on one Connection
SpecCall == Init /\ [][NextCall]_vars

\* two threads calling request on one Connection, serialized by their
\* callers or not
SpecRace == Init /\ [][NextRace]_vars

----------------------------------------------------------------------------
(* Claims about Connection.request (specification Spec) *)

\* C1: after any call of Connection.request has ended, by a return or by an
\* error of any kind, the per-call context dictionary is empty.
C1_ContextEmptyAfterRequest ==
    pc \in Ended => context = {}

\* what the claims C5 and C6 say enables retry: the per-call argument when
\* given, else the process-wide flag or the environment toggle
RetryWanted ==
    \/ args.rf = "True"
    \/ args.rf = "None" /\ (args.flag \/ args.env = "nonempty")

\* C5: the exchange is wrapped by the retry class exactly when retry is
\* enabled (per-call argument if given, else flag, else environment); when
\* it is not enabled the exchange runs exactly once per call and a transport
\* failure reaches the caller without a second attempt.
C5_RetryWrapping ==
    pc # "idle" =>
        /\ retry.on = RetryWanted
        /\ args.rf = "False" => ~retry.on
        /\ ~retry.on =>
            /\ attempts <= 1
            /\ pc # "sleep"
            /\ pc \in Ended => attempts = 1
            /\ (attempts = 1 /\ transport # "ok") =>
                   /\ pc = "raised"
                   /\ result.kind = "error"
                   /\ result.err = transport

\* C5 witness: the per-call argument False overrides a set flag and a set
\* environment toggle, and a transport failure is raised after one exchange.
C5_Witness ==
    /\ pc = "raised"
    /\ args.rf = "False" /\ args.flag /\ args.env = "nonempty"
    /\ ~retry.on
    /\ attempts = 1
    /\ result.err = "reset"

----------------------------------------------------------------------------
(* Claims about the response classes (specification SpecResponse) *)

Buffered == {"Response", "JsonResponse", "XmlResponse"}

\* C4 as stated: for every response class, 200, 201 and 202 classify as
\* success and any other status makes construction raise the mapped error
\* carrying that status.
C4_Original ==
    rpc = "built" =>
        IF rin.status \in {200, 201, 202}
        THEN resp.ok
        ELSE /\ resp.kind = "error"
             /\ resp.err = "httperror"
             /\ resp.code = rin.status

\* C4 amended: 200, 201 and 202 classify as success for every class and no
\* other status does.  For another status a buffered class raises the mapped
\* error carrying that status, or MalformedResponseError when the class
\* parses the error body and the parser rejects it; RawResponse raises
\* nothing and is returned carrying that status.
C4_SuccessClassification ==
    rpc = "built" =>
        /\ resp.ok = (rin.status \in {200, 201, 202})
        /\ resp.ok => ~(resp.kind = "error" /\ resp.err = "httperror")
        /\ (~resp.ok /\ rin.cls \in Buffered) =>
            /\ resp.kind = "error"
            /\ \/ /\ resp.err = "httperror"
                  /\ resp.code = rin.status
                  /\ resp.mapperCalls = 1
               \/ /\ resp.err = "malformed"
                  /\ rin.cls \in {"JsonResponse", "XmlResponse"}
                  /\ resp.parserCalls >= 1
                  /\ ~ParserAccepts(resp.body)
        /\ (~resp.ok /\ rin.cls = "RawResponse") =>
            /\ resp.kind = "raw"
            /\ resp.status = rin.status

\* C4 witness: a RawResponse constructed from 404 is returned, not raised.
C4_Witness ==
    /\ rpc = "built"
    /\ rin.cls = "RawResponse"
    /\ rin.status = 404
    /\ resp.kind = "raw"
    /\ resp.status = 404

EmptyBody == [parsed |-> FALSE, value |-> <<>>]

C10_ZeroLengthBody ==
    (/\ rpc = "built"
     /\ rin.cls \in {"JsonResponse", "XmlResponse"}
     /\ Len(resp.body) = 0) =>
        IF ~rin.pzlb
        THEN /\ resp.parserCalls = 0
             /\ resp.ok => resp.kind = "response" /\ resp.object = EmptyBody
             /\ ~resp.ok => /\ resp.err = "httperror"
                            /\ resp.message = EmptyBody
        ELSE resp.parserCalls = 1

\* C10 witness: an error response of a JsonResponse whose text is only
\* whitespace: the body is empty and the parser is not called.
C10_Witness ==
    /\ rpc = "built"
    /\ rin.cls = "JsonResponse"
    /\ ~rin.pzlb
    /\ rin.status = 404
    /\ rin.text = Text(<<" ">>)
    /\ resp.parserCalls = 0
    /\ resp.err = "httperror"

\* C20 as stated: constructing a RawResponse, for any status, captures
\* headers and status and does not fetch the transport response; it is
\* fetched only at the first read of the body or the reason.
C20_Original ==
    (rpc = "built" /\ rawObj.live) =>
        /\ resp.status = rin.status
        /\ rawObj.reads = 0 => rawObj.fetches = 0
        /\ rawObj.reads >= 1 => rawObj.fetches = 1

\* C20 amended: constructing a RawResponse captures status and headers (names
\* lowercased) for any status.  For a success status (200, 201, 202) it does
\* not fetch the transport response, which is fetched at the first read of
\* the body or the reason.  For any other status the constructor calls
\* parse_error, which reads the body: the transport response is fetched once
\* during construction and not again by later reads.
C20_RawConstruction ==
    (rpc = "built" /\ rawObj.live) =>
        /\ resp.kind = "raw"
        /\ resp.status = rin.status
        /\ resp.headers = {IF h = "X-Id" THEN "x-id" ELSE h : h \in rin.headers}
        /\ rawObj.reads = 0 =>
               rawObj.fetches = IF rin.status \in {200, 201, 202} THEN 0 ELSE 1
        /\ rawObj.reads >= 1 => rawObj.fetches = 1

\* C20 witness: a RawResponse constructed from status 404 has fetched the
\* transport response before any read.
C20_Witness ==
    /\ rpc = "built"
    /\ rawObj.live
    /\ rin.status = 404
    /\ rin.headers = {"X-Id"}
    /\ rawObj.reads = 0
    /\ rawObj.fetches = 1

\* whether the class hands the body to the format parser and it is rejected
Unparsable(cls, pzlb, body) ==
    /\ cls \in {"JsonResponse", "XmlResponse"}
    /\ ~(Len(body) = 0 /\ ~pzlb)
    /\ ~ParserAccepts(body)

\* C11 as stated: for every buffered response class and every body,
\* construction from a non-success status calls the error mapper exactly once
\* with the status, the parsed or raw error body and the response headers,
\* and raises its result; no object is returned or populated.
C11_Original ==
    (rpc = "built" /\ rin.cls \in Buffered /\ ~resp.ok) =>
        /\ resp.kind = "error"
        /\ resp.err = "httperror"
        /\ resp.mapperCalls = 1
        /\ resp.code = rin.status
        /\ resp.object = NoObject

\* C11 amended: construction of a buffered response from a non-success
\* status always raises and never populates the parsed object.  When the
\* error body is not handed to the format parser, or the parser accepts it,
\* the error mapper is called exactly once, with the status, the body (raw
\* for Response and for an unparsed empty body, parsed otherwise) and the
\* headers with lowercased names, and its result is raised.  When
\* JsonResponse or XmlResponse cannot parse the error body,
\* MalformedResponseError is raised and the mapper is not called.
C11_ErrorMapperOnce ==
    (rpc = "built" /\ rin.cls \in Buffered /\ ~resp.ok) =>
        /\ resp.kind = "error"
        /\ resp.object = NoObject
        /\ IF Unparsable(rin.cls, rin.pzlb, resp.body)
           THEN /\ resp.err = "malformed"
                /\ resp.mapperCalls = 0
           ELSE /\ resp.err = "httperror"
                /\ resp.mapperCalls = 1
                /\ resp.code = rin.status
                /\ resp.message.value = strip(rin.text.chars)
                /\ resp.message.parsed =
                       (rin.cls # "Response" /\ ParserAccepts(resp.body))
                /\ resp.mapHeaders = {IF h = "X-Id" THEN "x-id" ELSE h :
                                          h \in rin.headers}

\* C11 witness: a JsonResponse built from status 500 with a body the parser
\* rejects raises MalformedResponseError and the mapper is not called.
C11_Witness ==
    /\ rpc = "built"
    /\ rin.cls = "JsonResponse"
    /\ rin.status = 500
    /\ rin.text = Text(<<"x">>)
    /\ rin.headers = {"X-Id"}
    /\ resp.err = "malformed"
    /\ resp.mapperCalls = 0

\* C21: for JsonResponse and XmlResponse, a body the format parser rejects,
\* unless it is empty and parse_zero_length_body is false, makes construction
\* raise MalformedResponseError carrying the body of the response (the text
\* without surrounding whitespace) and the connection's driver, for a success
\* and for an error status alike; no response object is returned.
C21_MalformedResponse ==
    (/\ rpc = "built"
     /\ rin.cls \in {"JsonResponse", "XmlResponse"}
     /\ strip(rin.text.chars) # <<"v">>
     /\ ~(strip(rin.text.chars) = <<>> /\ ~rin.pzlb)) =>
        /\ resp.kind = "error"
        /\ resp.err = "malformed"
        /\ resp.errBody = strip(rin.text.chars)
        /\ resp.errDriver = rin.driver
        /\ resp.object = NoObject
        /\ resp.mapperCalls = 0

\* C21 witness: an XmlResponse with a success status and the text "x "
\* raises MalformedResponseError carrying "x" and the driver.
C21_Witness ==
    /\ rpc = "built"
    /\ rin.cls = "XmlResponse"
    /\ rin.status = 200
    /\ rin.text = Text(<<"x", " ">>)
    /\ rin.driver = "driver"
    /\ resp.err = "malformed"
    /\ resp.errBody = <<"x">>
    /\ resp.errDriver = "driver"

----------------------------------------------------------------------------
(* Claims about PollingConnection.async_request (specification SpecPoll) *)

\* C2: when has_completed is false for the first N poll responses and true
\* for the next, and the deadline has not passed when the (N+1)-th poll is
\* about to start, async_request issues exactly N+1 poll requests and
\* returns the (N+1)-th poll response: it never polls after completion,
\* returns only that response, and gives up only at a loop check made at or
\* after the deadline, before the (N+1)-th poll.
C2_ReturnsAfterNPlusOnePolls ==
    /\ ~pcfg.script.never => polls <= pcfg.script.n + 1
    /\ ppc = "completed" =>
        /\ ~pcfg.script.never
        /\ polls = pcfg.script.n + 1
        /\ presp = pcfg.script.n + 1
    /\ ppc = "timedout" =>
        /\ now >= pend
        /\ ~pcfg.script.never => polls <= pcfg.script.n

\* C2 witness: two polls answered "not completed", the third completes and
\* is returned.
C2_Witness ==
    /\ ppc = "completed"
    /\ pcfg.script.n = 2
    /\ polls = 3
    /\ presp = 3

\* C3 as stated: when has_completed never returns true the timeout error is
\* raised no later than timeout (plus one poll interval) after async_request
\* started, and no poll starts once that deadline has passed.
C3_Original ==
    /\ (ppc = "timedout" /\ pcfg.script.never) =>
           now <= pcfg.timeout + pcfg.interval
    /\ (ppc = "polling" /\ pcfg.script.never) => pollStart < pcfg.timeout

\* C3 amended: when has_completed never returns true, async_request raises
\* the job-timeout error.  The deadline is timeout after the initiating
\* response was received; every poll request starts before that deadline;
\* the error is raised at the first loop check at or after the deadline,
\* which is no later than the start of the last poll plus the time that poll
\* took plus one poll interval.
C3_TimeoutDeadline ==
    /\ ppc \in {"check", "polling", "sleeping", "completed", "timedout"} =>
           pend >= pcfg.timeout
    /\ ppc = "polling" => pollStart < pend
    /\ (ppc \in {"completed", "timedout"} /\ pcfg.script.never) =>
        /\ ppc = "timedout"
        /\ perr = "jobtimeout"
        /\ now >= pend
        /\ polls = 0 => now = pend - pcfg.timeout /\ pcfg.timeout <= 0
        /\ polls > 0 =>
            /\ pollStart < pend
            /\ now <= pollStart + MaxDur + pcfg.interval

\* C3 witness: the job never completes and the timeout error is raised later
\* than timeout plus one poll interval after async_request started.
C3_Witness ==
    /\ ppc = "timedout"
    /\ pcfg.script.never
    /\ polls >= 2
    /\ now > pcfg.timeout + pcfg.interval

\* C13 as stated: async_request on a PollingConnection that leaves any one
\* of the three extension points un-overridden ends in an error.
C13_Original ==
    (ppc \in PollEnded /\ pcfg.impl # ExtensionPoints) =>
        ppc \in {"failed", "timedout"}

\* C13 amended: get_poll_request_kwargs and has_completed have no default
\* behaviour: a call of async_request that leaves one of them un-overridden
\* never returns a response.  Without get_poll_request_kwargs it fails
\* before any poll, with NotImplementedError unless the initiating request
\* raised; without has_completed it fails with NotImplementedError at the
\* first poll response, unless a request or the extraction raised or the
\* deadline had passed before the first poll.  get_request_kwargs has a
\* default, which hands the arguments through: leaving it un-overridden is
\* no error.
C13_ExtensionPoints ==
    /\ (ppc # "idle" /\ "get_request_kwargs" \notin pcfg.impl) =>
           pfail.step # "get_request_kwargs"
    /\ (ppc \in PollEnded /\ "get_poll_request_kwargs" \notin pcfg.impl) =>
        /\ ppc = "failed"
        /\ polls = 0
        /\ pfail.step = "request" \/ perr = "NotImplementedError"
    /\ (ppc \in PollEnded /\ "has_completed" \notin pcfg.impl) =>
        /\ ppc # "completed"
        /\ polls <= 1
        /\ ppc = "timedout" => polls = 0
        /\ (ppc = "failed" /\ pfail.step = "has_completed") =>
               perr = "NotImplementedError"

\* C13 witness: a subclass that overrides only get_poll_request_kwargs and
\* has_completed gets a response from async_request after two polls.
C13_Witness ==
    /\ ppc = "completed"
    /\ pcfg.impl = {"get_poll_request_kwargs", "has_completed"}
    /\ polls = 2

\* C15 as stated: the kwargs of each poll request are derived from the most
\* recent response: the initiating response for the first poll, the previous
\* poll response for every later poll.
C15_Original ==
    ppc = "polling" => pollFrom = presp

\* C15 amended: the extraction step runs once per call of async_request, on
\* the initiating response, before the first poll; every poll request, the
\* first and the later ones, uses the kwargs derived then.
C15_PollKwargsFromInitiating ==
    /\ counts.extracts <= 1
    /\ counts.extracts <= counts.inits
    /\ polls >= 1 =>
        /\ counts.extracts = 1
        /\ kwFrom = 0
        /\ pollFrom = 0

\* C15 witness: the third poll request is in flight, the second poll
\* response is the most recent one, and the kwargs in use come from the
\* initiating response.
C15_Witness ==
    /\ ppc = "polling"
    /\ polls = 3
    /\ presp = 2
    /\ pollFrom = 0
    /\ counts.extracts = 1

\* the positions async_request may move to from a position
PollSuccessors(p) ==
    CASE p = "idle" -> {"initiating"}
      [] p = "initiating" -> {"check", "failed"}
      [] p = "check" -> {"polling", "completed", "timedout"}
      [] p = "polling" -> {"sleeping", "check", "failed"}
      [] p = "sleeping" -> {"check"}
      [] OTHER -> {"idle"}

C16_Inv ==
    /\ counts.inits <= 1
    /\ ppc \in {"idle", "initiating"} =>
           counts.inits = 0 /\ polls = 0 /\ counts.evals = 0
    /\ ppc \in {"check", "polling", "sleeping", "completed", "timedout"} =>
           counts.inits = 1
    /\ polls >= 1 => counts.inits = 1
    /\ ppc = "polling" => ~completed /\ counts.evals = polls - 1
    /\ ppc \in {"check", "sleeping", "completed", "timedout"} =>
           counts.evals = polls
    /\ ppc = "failed" => counts.evals \in {polls - 1, polls}
    /\ ppc = "completed" => completed /\ polls >= 1 /\ presp = polls
    /\ ppc = "timedout" => ~completed /\ now >= pend

C16_Step ==
    /\ ppc' \in PollSuccessors(ppc) \cup {ppc}
    /\ ppc \in PollEnded =>
           polls' <= polls /\ counts'.inits <= counts.inits

\* C16: every execution of async_request goes idle, initiating request,
\* polling loop, then returns or raises the timeout error (or, when a step
\* raises, fails): the initiating request is issued exactly once and its
\* response captured before any poll request, has_completed is called once
\* per poll response and on nothing else, and once the outcome is determined
\* no request is issued.
C16_StateMachine == []C16_Inv /\ [][C16_Step]_vars

\* C16 witness: a call that timed out after two polls: one initiating
\* request, two evaluations of has_completed.
C16_Witness ==
    /\ ppc = "timedout"
    /\ polls = 2
    /\ counts.inits = 1
    /\ counts.evals = 2

\* C17: between any two consecutive poll requests there is exactly one wait
\* of poll_interval, and there is no wait after the poll whose response
\* satisfies has_completed: the loop ends as soon as it is true.
C17_OneWaitBetweenPolls ==
    /\ counts.slept = counts.sleeps * pcfg.interval
    /\ ppc \in {"polling", "sleeping", "completed"} =>
           counts.sleeps = polls - 1
    /\ ppc = "sleeping" => ~completed
    /\ ppc = "check" =>
           counts.sleeps = IF completed THEN polls - 1 ELSE polls
    /\ ppc = "timedout" => counts.sleeps = polls
    /\ ppc = "failed" => counts.sleeps = IF polls = 0 THEN 0 ELSE polls - 1

\* C17 witness: a call that returned the third poll response after two
\* waits of one poll interval each.
C17_Witness ==
    /\ ppc = "completed"
    /\ polls = 3
    /\ counts.sleeps = 2
    /\ counts.slept = 2 * pcfg.interval

\* the bound on polls in the guard of the loop check never holds a poll back
PollCapNeverBinds ==
    (ppc = "check" /\ LoopContinues(now, pend, completed)) => polls < MaxPolls

\* C18: when each wait advances the clock and every request returns or
\* raises, every call of async_request ends: it returns a response, raises
\* the timeout error or fails with the error of a step.
C18_Terminates ==
    /\ []PollCapNeverBinds
    /\ (ppc = "initiating") ~> (ppc \in PollEnded)

\* C18 witness: a job that never completes: the call polled as often as the
\* timeout allows and ended with the timeout error.
C18_Witness ==
    /\ ppc = "timedout"
    /\ pcfg.script.never
    /\ pcfg.timeout = MaxPollTimeout
    /\ polls = MaxPollTimeout
    /\ perr = "jobtimeout"

C19_Inv ==
    /\ pfail.step # "" =>
        /\ ppc = "failed"
        /\ perr = pfail.err
        /\ perr # "jobtimeout"
        /\ pfail.step \in {"request", "get_poll_request_kwargs",
                           "has_completed"}
    /\ pfail.step = "get_poll_request_kwargs" => polls = 0
    /\ ppc = "failed" => pfail.step # ""
    /\ ppc \in {"completed", "timedout"} => pfail = NoFail

\* C19: when the initiating request, the extraction step, a poll request or
\* has_completed raises, async_request ends with that error, unchanged: it is
\* not replaced by the job-timeout error, not swallowed, and no poll request
\* follows it.
C19_ErrorPropagation ==
    /\ []C19_Inv
    /\ [][ppc = "failed" => (ppc' = "idle" /\ polls' = 0)]_vars

\* C19 witness: has_completed raises KeyError on the second poll response
\* and async_request fails with KeyError.
C19_Witness ==
    /\ ppc = "failed"
    /\ pfail = [step |-> "has_completed", err |-> "KeyError"]
    /\ perr = "KeyError"
    /\ polls = 2

\* C27: whenever async_request returns, what it returns is the last poll
\* response and has_completed was true for it: never the initiating response,
\* never a response has_completed was false for.  When the deadline has
\* passed before the first poll (timeout <= 0) it issues no poll request and
\* raises the timeout error.
C27_ReturnsCompletedPoll ==
    /\ ppc = "completed" =>
        /\ polls >= 1
        /\ presp = polls
        /\ ~pcfg.script.never
        /\ presp > pcfg.script.n
        /\ counts.evals = polls
        /\ completed
    /\ (ppc # "idle" /\ pcfg.timeout <= 0) =>
        /\ polls = 0
        /\ ppc # "completed"
        /\ (ppc \in PollEnded /\ pfail = NoFail) =>
               ppc = "timedout" /\ perr = "jobtimeout"

\* C27 witness: with a negative timeout the call raises the timeout error
\* after the initiating request and no poll.
C27_Witness ==
    /\ ppc = "timedout"
    /\ pcfg.timeout < 0
    /\ polls = 0
    /\ counts.inits = 1
    /\ perr = "jobtimeout"

----------------------------------------------------------------------------
(* Claims about morph_action_hook and the URL (specification SpecUrl) *)

\* the non-empty segments of a path
Segs(path) == NonEmpty(Split(path, "/"))

NoDoubledSlash(path) ==
    \A i \in 1..(Len(path) - 1) : ~(path[i] = "/" /\ path[i + 1] = "/")

RECURSIVE Count(_, _)
Count(s, c) ==
    IF s = <<>> THEN 0
    ELSE (IF Head(s) = c THEN 1 ELSE 0) + Count(Tail(s), c)

\* a well-formed action: no segment of its path is "." or ".."
WellFormedAction(action) ==
    LET parts == Split(UrlPath(action), "/")
    IN  \A i \in 1..Len(parts) :
            parts[i] # <<".">> /\ parts[i] # <<".", ".">>

C9_UrlSeparator ==
    upc = "built" =>
        IF uparams # <<>>
        THEN IF ~Contains(uaction, "?")
             THEN /\ url = uaction \o <<"?">> \o urlencode(uparams)
                  /\ Count(url, "?") = 1
             ELSE url = uaction \o <<"&">> \o urlencode(uparams)
        ELSE url = uaction

\* C9 witness: an action that carries a query and a parameter whose value
\* holds a "?" are joined with "&".
C9_Witness ==
    /\ upc = "built"
    /\ Contains(uaction, "?")
    /\ uparams = <<<<"k", "?">>>>
    /\ url = uaction \o <<"&", "k", "=", "%", "3", "F">>

----------------------------------------------------------------------------
(* Claims about Connection.__init__ (specification SpecInit) *)

\* C12: constructing a Connection with a false secure argument on a class
\* that forbids insecure connections, or with a URL whose scheme is neither
\* http nor https, fails with a configuration error: no connection object is
\* produced and no transport connection is opened.
C12_ConstructorMisconfiguration ==
    /\ (ipc # "none" /\ ~iin.allow_insecure /\ ~iin.secure) =>
        /\ ipc = "failed"
        /\ iobj.kind = "error"
        /\ iobj.err = "ValueError"
    /\ (/\ ipc # "none"
        /\ ~iin.url.none
        /\ iin.url.scheme \notin {"http", "https"}) =>
        /\ ipc = "failed"
        /\ iobj.kind = "error"
        /\ iobj.err \in {"ValueError", "LibcloudError"}
        /\ (iin.allow_insecure \/ iin.secure) => iobj.err = "LibcloudError"
    /\ ipc = "failed" =>
        /\ iobj.host = <<>> /\ iobj.port = NonePort
        /\ iobj.connection = "None"
    /\ ipc = "built" => iobj.connection = "None"

\* C12 witness: a URL with the scheme ftp given to a class that allows
\* insecure connections fails with the invalid-scheme error.
C12_Witness ==
    /\ ipc = "failed"
    /\ iin.allow_insecure
    /\ ~iin.secure
    /\ ~iin.url.none
    /\ iin.url.scheme = "ftp"
    /\ iobj.err = "LibcloudError"

\* the port named after the colon of the URL's netloc (0: none named)
UrlPortGiven ==
    IF Contains(iin.url.netloc, ":")
    THEN int(Split(iin.url.netloc, ":")[2]).n
    ELSE 0

\* whether the port of the connection was given explicitly: in the URL when
\* a URL is given (a port of 0 there counts as not given), else as the port
\* argument
ExplicitPort ==
    IF iin.url.none THEN ~iin.port.none ELSE UrlPortGiven # 0

DefaultPort(secure) == IF secure = 1 THEN 443 ELSE 80

\* C14 as stated: after every successful construction the port is a positive
\* integer, and it is the default for the secure flag (443 when secure, 80
\* when not) unless a port was given explicitly.
C14_Original ==
    ipc = "built" =>
        /\ ~iobj.port.none
        /\ iobj.port.n > 0
        /\ iobj.secure \in {0, 1}
        /\ ~ExplicitPort => iobj.port.n = DefaultPort(iobj.secure)

\* C14 amended: after every successful construction secure is 0 or 1 (from
\* the URL's scheme when a URL is given, else from the secure argument) and
\* port is an integer: the default for the secure flag (443 when secure, 80
\* when not) unless a port was given explicitly, else the port given, stored
\* unchecked.  So port is positive exactly when no port was given explicitly
\* or the port given is positive.
C14_PortAndSecure ==
    ipc = "built" =>
        /\ ~iobj.port.none
        /\ iobj.secure \in {0, 1}
        /\ iobj.secure = IF iin.url.none
                         THEN (IF iin.secure THEN 1 ELSE 0)
                         ELSE (IF iin.url.scheme = "https" THEN 1 ELSE 0)
        /\ ~ExplicitPort => iobj.port.n = DefaultPort(iobj.secure)
        /\ ExplicitPort =>
               iobj.port.n = IF iin.url.none THEN iin.port.n
                             ELSE UrlPortGiven
        /\ (iobj.port.n > 0) <=>
               (~ExplicitPort \/ (IF iin.url.none THEN iin.port.n
                                  ELSE UrlPortGiven) > 0)

\* C14 witness: a connection constructed with port=0 and no URL has port 0.
C14_Witness ==
    /\ ipc = "built"
    /\ iin.url.none
    /\ iin.port = Port(0)
    /\ iobj.port.n = 0

\* the port a URL names, or the default of its scheme
UrlPortOf(u) ==
    LET named == IF Contains(u.netloc, ":")
                 THEN int(Split(u.netloc, ":")[2]).n ELSE 0
    IN  IF named # 0 THEN named
        ELSE IF u.scheme = "http" THEN 80 ELSE 443

\* C24: when connect resolves a base URL (the argument, else the base_url
\* attribute), the transport connection is opened with the host, the port
\* and the security flag derived from that URL; without a base URL and
\* without host and port arguments it is opened with the configured host,
\* port and security flag.
C24_ConnectTarget ==
    ipc = "connected" =>
        LET u == IF ~iconn.args.base_url.none THEN iconn.args.base_url
                 ELSE iconn.args.attr
        IN  IF ~u.none
            THEN /\ iconn.host = Split(u.netloc, ":")[1]
                 /\ iconn.port = UrlPortOf(u)
                 /\ iconn.secure = IF u.scheme = "https" THEN 1 ELSE 0
            ELSE (iconn.args.host = <<>> /\ iconn.args.port.none) =>
                     /\ iconn.host = iobj.host
                     /\ iconn.port = iobj.port.n
                     /\ iconn.secure = iobj.secure

----------------------------------------------------------------------------
(* Claims about the request calls on one Connection (specification        *)
(* SpecCall)                                                               *)

\* C22: request leaves the caller's params and headers mappings unchanged:
\* the entries of the provider hooks, the cache-busting parameter and the
\* User-Agent, Accept-Encoding and Host headers go into the mappings request
\* sends, which are copies; after request returned or raised the caller's
\* mappings hold exactly the entries they held before.
C22_CallerMappingsUnchanged ==
    cpc # "idle" =>
        /\ ~cin.params.none => cparams.caller = cin.params.items
        /\ ~cin.headers.none => cheaders.caller = cin.headers.items
        /\ <<"User-Agent", "libcloud">> \in cheaders.sent
        /\ <<"Accept-Encoding", "gzip,deflate">> \in cheaders.sent
        /\ \E e \in cheaders.sent : e[1] = "Host" /\ e[2] # "x"
        /\ Len(cparams.sent) >= Len(cin.params.items)

\* C22 witness: a call that returned, made with params {k: a} and headers
\* {Host: x}: three params and another Host header were sent, the caller's
\* mappings are as they were.
C22_Witness ==
    /\ cpc = "returned"
    /\ cin.params = Params(<<<<"k", "a">>>>)
    /\ cin.headers = Headers({<<"Host", "x">>})
    /\ Len(cparams.sent) = 3
    /\ <<"Host", "h:81">> \in cheaders.sent
    /\ cparams.caller = <<<<"k", "a">>>>
    /\ cheaders.caller = {<<"Host", "x">>}

C23_Inv ==
    /\ cinst.opened <= 1
    /\ cinst.opened = IF cinst.connection = "None" THEN 0 ELSE 1
    /\ cpc # "idle" => cconnects = IF cin.hadConn THEN 0 ELSE 1
    /\ cpc \in {"running", "returned"} => cinst.connection = "conn"

C23_Step ==
    cinst.connection = "conn" =>
        /\ cinst'.connection = "conn"
        /\ cinst'.opened = cinst.opened
        /\ cconnects' <= cconnects

\* C23: across a sequence of request calls on one Connection, request calls
\* connect only when the Connection holds no transport connection: once,
\* before the exchange, in the first call (and again in a later call only
\* if connect raised before); a call on a Connection that holds a transport
\* connection reuses it and does not call connect.
C23_LazyConnectOnce == []C23_Inv /\ [][C23_Step]_vars

\* C23 witness: a later call runs on the transport connection an earlier
\* call opened, without a call of connect.
C23_Witness ==
    /\ cpc = "running"
    /\ cin.hadConn
    /\ cconnects = 0
    /\ cinst.opened = 1

\* C25 as stated: once request has returned or raised, the Connection no
\* longer holds the action, method or body of that call.
C25_Original ==
    cpc \in {"returned", "raised"} =>
        /\ ~cinst.action.set
        /\ cinst.method = "unset"
        /\ cinst.data \in {"unset", "None"}

\* C25 amended: the action (after morph_action_hook), the method and the
\* body a request stores on the Connection are not reset when the call ends:
\* after request has returned or raised the Connection still holds those of
\* that call, until the next call overwrites them.
C25_CallStateKept ==
    /\ cpc # "idle" =>
        /\ cinst.action = [set |-> TRUE,
                           v |-> <<"/">> \o cin.action]
        /\ cinst.method = cin.method
        /\ cinst.data = cin.data
    /\ cinst.action.set <=> cinst.method # "unset"
    /\ cinst.action.set <=> cinst.data # "unset"
    /\ (cpc = "idle" /\ cinst.opened = 1) => cinst.action.set

\* C25 witness: a call with action "a", method POST and body "d" has
\* returned and the Connection holds "/a", POST and "d".
C25_Witness ==
    /\ cpc = "returned"
    /\ cinst.action = [set |-> TRUE, v |-> <<"/", "a">>]
    /\ cinst.method = "POST"
    /\ cinst.data = "d"

----------------------------------------------------------------------------
(* Claims about concurrent calls (specification SpecRace) *)

\* what a call in progress has written to the Connection, or its caller has
\* set: the context from set_context on (the empty context when the caller
\* set none), the action, the method and the body from their assignments on
InCall(t) == rth[t].pc # "idle"

OwnContext(t) == IF rth[t].setCtx THEN RaceArgs(t).context ELSE {}

SeesOtherCallState(t) ==
    \/ /\ rth[t].pc \in {"action", "method", "stored"}
       /\ rself.action # [set |-> TRUE, v |-> RaceArgs(t).action]
    \/ /\ rth[t].pc \in {"method", "stored"}
       /\ rself.method # RaceArgs(t).method
    \/ /\ rth[t].pc = "stored"
       /\ rself.data # RaceArgs(t).data

SeesOtherContext(t) == InCall(t) /\ rself.context # OwnContext(t)

\* C26 as stated, second half: when the calls on an instance are serialized
\* no call in progress finds on the Connection an action, method, body or
\* context other than its own.
C26_SerializedIsolated ==
    rser => \A t \in Threads :
                ~SeesOtherCallState(t) /\ ~SeesOtherContext(t)

\* C26, what holds of serialized calls: a call in progress finds its own
\* action, method and body on the Connection, and a context other than its
\* own only when it set none.
C26_SerializedCallState ==
    rser => \A t \in Threads :
                /\ ~SeesOtherCallState(t)
                /\ SeesOtherContext(t) => ~rth[t].setCtx

\* C26, first half: without serialization a call in progress finds the
\* other call's action on the Connection.
C26_RaceOnCallState ==
    /\ ~rser
    /\ rth[1].pc = "stored"
    /\ rself.action = [set |-> TRUE, v |-> RaceArgs(2).action]

\* C26, first half: without serialization the completion of the other call
\* clears the context of a call in progress.
C26_RaceOnContext ==
    /\ ~rser
    /\ rth[1].pc = "stored"
    /\ rth[1].setCtx
    /\ rth[2].pc = "idle"
    /\ rself.context = {}

====
